---------------------------- MODULE Spec2Model ----------------------------
(***************************************************************************)
(* The two enrichment passes of the cardinal pipeline:                     *)
(*   scrapers/profile_scraper.py          (page-derived attributes)        *)
(*   scrapers/reasoning_profile_data.py   (rating-derived attributes)      *)
(*                                                                         *)
(* Python strings that the code inspects character by character (regular   *)
(* expressions, find/rfind, json.loads) are sequences of tokens; a token   *)
(* is a run of characters that every pattern of the code treats as a       *)
(* whole.  Join turns a token sequence into the string it spells.          *)
(***************************************************************************)
EXTENDS Integers, Sequences, FiniteSets, TLC

VARIABLES
    stage,            \* which script runs: "scrape" or "reason"
    pc,               \* position of the run
    in_file,          \* content of the input file of the stage
    data,             \* json_data / cardinals_data: the loaded collection
    idx,              \* 1-based position of the for loop
    updated_data,     \* process_all_cardinals: the list being built
    out_file,         \* content of the output file of the stage
    page,             \* the browser page of the entity in flight
    profile_data,     \* process_cardinals: result of extract_cardinal_data
    analysis_text,    \* analyze_cardinal_profile: the text of the response
    analysis_results, \* process_cardinals: result of analyze_cardinal_profile
    exc,              \* where the entity in flight met an exception, or "none"
    since_req,        \* entity whose requests no pacing delay has followed yet
    delays,           \* number of pacing delays performed
    groq_api_key,     \* the environment variable GROQ_API_KEY
    visible,          \* whether the open page shows the load-more control
    fn,               \* a function called on its own: its name, or "none"
    arg,              \* the argument of that call
    ret               \* what the call returned

\* the variables of a function called on its own
callvars == <<fn, arg, ret>>

vars == <<stage, pc, in_file, data, idx, updated_data, out_file, page,
          profile_data, analysis_text, analysis_results, exc, since_req, delays,
          groq_api_key, visible, callvars>>

(***************************************************************************)
(* Bounds of the model.                                                    *)
(***************************************************************************)
MaxEntities == 2
MaxInt == 12
MaxOver == 3
MaxItems == 2
MaxSubItems == 2

(***************************************************************************)
(* Text.                                                                   *)
(***************************************************************************)
WS == " "

RECURSIVE Join(_)
Join(toks) == IF toks = <<>> THEN "" ELSE Head(toks) \o Join(Tail(toks))

RECURSIVE LStrip(_)
LStrip(toks) ==
    IF toks # <<>> /\ Head(toks) = WS THEN LStrip(Tail(toks)) ELSE toks

RECURSIVE RStrip(_)
RStrip(toks) ==
    IF toks # <<>> /\ toks[Len(toks)] = WS
    THEN RStrip(SubSeq(toks, 1, Len(toks) - 1))
    ELSE toks

\* str.strip()
Strip(toks) == RStrip(LStrip(toks))

\* first position >= from of a token satisfying Test, 0 when there is none
RECURSIVE IndexFrom(_, _, _)
IndexFrom(toks, tok, from) ==
    IF from > Len(toks) THEN 0
    ELSE IF toks[from] = tok THEN from
    ELSE IndexFrom(toks, tok, from + 1)

\* str(n) of an int
Digit == <<"0", "1", "2", "3", "4", "5", "6", "7", "8", "9">>
IsDigit(tok) == \E d \in 1..10 : Digit[d] = tok

RECURSIVE DecStr(_)
DecStr(n) ==
    IF n < 0 THEN "-" \o DecStr(-n)
    ELSE IF n < 10 THEN Digit[n + 1]
    ELSE DecStr(n \div 10) \o Digit[(n % 10) + 1]


(***************************************************************************)
(* The parsed page (BeautifulSoup tree).  An element has a tag, an id, a   *)
(* set of classes, the value of its attribute a, and children; a text node *)
(* has tokens.  A node inside a tree is named by its path, the sequence of *)
(* child positions leading to it.                                          *)
(***************************************************************************)
El(tag, id, cls, a, kids) ==
    [tag |-> tag, id |-> id, cls |-> cls, a |-> a, toks |-> <<>>, kids |-> kids]
Txt(toks) ==
    [tag |-> "#text", id |-> "", cls |-> {}, a |-> "", toks |-> toks, kids |-> <<>>]

RECURSIVE NodeAt(_, _)
NodeAt(n, path) ==
    IF path = <<>> THEN n ELSE NodeAt(n.kids[Head(path)], Tail(path))

Prefixed(k, paths) == [j \in 1..Len(paths) |-> <<k>> \o paths[j]]

\* the descendants of n in document order
RECURSIVE DescPaths(_)
RECURSIVE KidsPaths(_, _)
KidsPaths(n, k) ==
    IF k > Len(n.kids) THEN <<>>
    ELSE <<<<k>>>> \o Prefixed(k, DescPaths(n.kids[k])) \o KidsPaths(n, k + 1)
DescPaths(n) == KidsPaths(n, 1)

\* the arguments of find / find_all: a tag name, and the id, the class and
\* the attribute a asked for ("" where none is asked for)
Sel(tag, id, c, a) == [tag |-> tag, id |-> id, cls |-> c, a |-> a]
Matches(n, sel) ==
    /\ n.tag = sel.tag
    /\ sel.id = "" \/ n.id = sel.id
    /\ sel.cls = "" \/ sel.cls \in n.cls
    /\ sel.a = "" \/ n.a = sel.a

\* Tag.find_all: the descendants that match, in document order (find is the
\* first of them)
FindAll(n, sel) == SelectSeq(DescPaths(n), LAMBDA p : Matches(NodeAt(n, p), sel))

\* Tag.text / get_text(): the text nodes under n, concatenated
RECURSIVE Text(_)
RECURSIVE KidsText(_, _)
KidsText(n, k) ==
    IF k > Len(n.kids) THEN <<>> ELSE Text(n.kids[k]) \o KidsText(n, k + 1)
Text(n) == IF n.tag = "#text" THEN n.toks ELSE KidsText(n, 1)

\* get_text(strip=True): every text node stripped, the empty ones dropped
RECURSIVE StrippedText(_)
RECURSIVE KidsStrippedText(_, _)
KidsStrippedText(n, k) ==
    IF k > Len(n.kids) THEN <<>>
    ELSE StrippedText(n.kids[k]) \o KidsStrippedText(n, k + 1)
StrippedText(n) == IF n.tag = "#text" THEN Strip(n.toks) ELSE KidsStrippedText(n, 1)

(***************************************************************************)
(* The two regular expressions of extract_issues_from_html.  The literals  *)
(* "[value] =>" and "[label] =>" are one token each; a digit is one token; *)
(* ")" is one token.  A search returns the captured group, or <<>> when    *)
(* the pattern matches nowhere (a group is never empty).                   *)
(***************************************************************************)
ValueKey == "[value] =>"
LabelKey == "[label] =>"
CloseParen == ")"
NoMatch == <<>>

RECURSIVE SkipWS(_, _)
SkipWS(toks, from) ==
    IF from <= Len(toks) /\ toks[from] = WS THEN SkipWS(toks, from + 1) ELSE from

RECURSIVE DigitRunEnd(_, _)
DigitRunEnd(toks, from) ==
    IF from <= Len(toks) /\ IsDigit(toks[from]) THEN DigitRunEnd(toks, from + 1)
    ELSE from

RECURSIVE NonParenRunEnd(_, _)
NonParenRunEnd(toks, from) ==
    IF from <= Len(toks) /\ toks[from] # CloseParen
    THEN NonParenRunEnd(toks, from + 1)
    ELSE from

\* re.search(r"\[value\] =>\s*(\d+)", text).group(1)
RECURSIVE ValueSearch(_, _)
ValueSearch(toks, from) ==
    LET k == IndexFrom(toks, ValueKey, from) IN
    IF k = 0 THEN NoMatch
    ELSE LET s == SkipWS(toks, k + 1)
             e == DigitRunEnd(toks, s)
         IN IF e > s THEN SubSeq(toks, s, e - 1) ELSE ValueSearch(toks, k + 1)

\* re.search(r"\[label\] =>\s*([^\)]+)", text).group(1): \s* is greedy and
\* gives one whitespace back when nothing else is left for the group
RECURSIVE LabelSearch(_, _)
LabelSearch(toks, from) ==
    LET k == IndexFrom(toks, LabelKey, from) IN
    IF k = 0 THEN NoMatch
    ELSE LET s == SkipWS(toks, k + 1)
             e == NonParenRunEnd(toks, s)
         IN IF e > s THEN SubSeq(toks, s, e - 1)
            ELSE IF s > k + 1 THEN SubSeq(toks, s - 1, s - 1)
            ELSE LabelSearch(toks, k + 1)

Unknown == "Unknown"

\* profile_scraper.py lines 160-173
HiddenValue(hidden) ==
    LET m == ValueSearch(Strip(Text(hidden)), 1) IN
    IF m # NoMatch THEN Join(m) ELSE Unknown
HiddenLabel(hidden) ==
    LET m == LabelSearch(Strip(Text(hidden)), 1) IN
    IF m # NoMatch THEN Join(Strip(m)) ELSE Unknown

\* str.split("See evidence")[0]
BeforeSeeEvidence(toks) ==
    LET k == IndexFrom(toks, "See evidence", 1) IN
    IF k = 0 THEN toks ELSE SubSeq(toks, 1, k - 1)

\* profile_scraper.py lines 128-143
IssueTitle(item) ==
    LET h3s == FindAll(item, Sel("h3", "", "", "")) IN
    IF h3s = <<>> THEN "Unknown Issue"
    ELSE LET h3 == NodeAt(item, h3s[1])
             spans == FindAll(h3, Sel("span", "", "accordion-title", ""))
         IN IF spans # <<>> THEN Join(StrippedText(NodeAt(h3, spans[1])))
            ELSE Join(Strip(BeforeSeeEvidence(StrippedText(h3))))

\* profile_scraper.py lines 155-182: the record of one content section
ContentRecord(issue_title, content) ==
    LET subs == FindAll(content, Sel("p", "", "accordion-sub-title", ""))
        hids == FindAll(content, Sel("div", "", "", "b"))
    IN [issue_title |-> issue_title,
        subtitle |-> IF subs # <<>> THEN Join(Strip(Text(NodeAt(content, subs[1]))))
                     ELSE "No title found",
        value |-> IF hids # <<>> THEN HiddenValue(NodeAt(content, hids[1])) ELSE Unknown,
        label |-> IF hids # <<>> THEN HiddenLabel(NodeAt(content, hids[1])) ELSE Unknown]

\* profile_scraper.py lines 127-182: the records of one accordion heading of
\* the stands section w, named by its path in w
ItemRecords(w, hp) ==
    LET item == NodeAt(w, hp)
        heading_parent == NodeAt(w, SubSeq(hp, 1, Len(hp) - 1))
        details == FindAll(heading_parent, Sel("div", "", "accordion-details", ""))
    IN IF details = <<>> THEN <<>>
       ELSE LET details_section == NodeAt(heading_parent, details[1])
                content_sections ==
                    FindAll(details_section, Sel("div", "", "accordion-content", ""))
            IN [j \in 1..Len(content_sections) |->
                   ContentRecord(IssueTitle(item), NodeAt(details_section, content_sections[j]))]

RECURSIVE ItemsRecords(_, _, _)
ItemsRecords(w, items, k) ==
    IF k > Len(items) THEN <<>>
    ELSE ItemRecords(w, items[k]) \o ItemsRecords(w, items, k + 1)

\* the extractor, were the accordion items looked for in the whole document
extract_issues_anywhere(soup) ==
    ItemsRecords(soup, FindAll(soup, Sel("div", "", "accordion-heading", "")), 1)

\* profile_scraper.py lines 104-184
extract_issues_from_html(soup) ==
    LET found == FindAll(soup, Sel("div", "wherehestands", "", "")) IN
    IF found = <<>> THEN <<>>
    ELSE LET where_he_stands == NodeAt(soup, found[1])
             accordion_items ==
                 FindAll(where_he_stands, Sel("div", "", "accordion-heading", ""))
         IN ItemsRecords(where_he_stands, accordion_items, 1)


(***************************************************************************)
(* Python values as json.loads produces them: a kind k and a payload v.    *)
(* A dict is a function from its keys, with the keys in insertion order in *)
(* o.                                                                      *)
(***************************************************************************)
JInt(n) == [k |-> "int", v |-> n]
JStr(str) == [k |-> "str", v |-> str]
JList(elems) == [k |-> "list", v |-> elems]
JDict(members, keys) == [k |-> "dict", v |-> members, o |-> keys]
JNull == [k |-> "null", v |-> 0]
\* a finite float, v its value in tenths; the floats inf, -inf and nan; a bool
JFloat(tenths) == [k |-> "float", v |-> tenths]
JInf(sign) == [k |-> "inf", v |-> sign]
JNaN == [k |-> "nan", v |-> 0]
JBool(b) == [k |-> "bool", v |-> b]
NoValue == [k |-> "none", v |-> 0]

Has(d, key) == key \in DOMAIN d
With(d, key, val) == [x \in DOMAIN d \cup {key} |-> IF x = key THEN val ELSE d[x]]

(***************************************************************************)
(* The text of a reasoning response: tokens of kind punct ({ } [ ] , :),   *)
(* string (a JSON string literal, v its content), number (an integer       *)
(* literal), fraction (a literal with one decimal, v its value in tenths), *)
(* word (prose, or one of the literals null, true, false, NaN, Infinity)   *)
(* and ws.                                                                 *)
(***************************************************************************)
P(c) == [k |-> "punct", v |-> c]
S(str) == [k |-> "string", v |-> str]
N(n) == [k |-> "number", v |-> n]
F(tenths) == [k |-> "fraction", v |-> tenths]
W(str) == [k |-> "word", v |-> str]
Sp == [k |-> "ws", v |-> " "]

\* repr of a finite float with one decimal
FloatStr(tenths) ==
    LET m == IF tenths < 0 THEN -tenths ELSE tenths IN
    (IF tenths < 0 THEN "-" ELSE "") \o DecStr(m \div 10) \o "." \o Digit[(m % 10) + 1]

\* the code of an ASCII control character (1 to 31, and 127 for DEL), -1 for
\* any other character; the text of the model has no NUL
ControlCode(c) ==
    LET control == <<"", "", "", "", "", "", "", "", "\t", "\n", "", "\f", "\r", "", "", "", "", "", "", "", "", "", "", "", "", "", "", "", "", "", "", "">>
    IN IF \E n \in 1..Len(control) : control[n] = c
       THEN LET n == CHOOSE n \in 1..Len(control) : control[n] = c
            IN IF n = Len(control) THEN 127 ELSE n
       ELSE -1

\* the characters of a JSON string literal from the i-th on, as the text
\* spells them: the quote and the backslash escaped, a control character
\* below 32 written \u00XX
RECURSIVE JsonChars(_, _)
JsonChars(str, i) ==
    IF i > Len(str) THEN ""
    ELSE LET c == SubSeq(str, i, i)
             code == ControlCode(c)
         IN (CASE c = "\\" -> "\\\\"
               [] c = "\"" -> "\\\""
               [] code \in 1..31 ->
                      "\\u00" \o SubSeq("0123456789abcdef", (code \div 16) + 1, (code \div 16) + 1)
                               \o SubSeq("0123456789abcdef", (code % 16) + 1, (code % 16) + 1)
               [] OTHER -> c) \o JsonChars(str, i + 1)

\* the characters of a token
Spell(tok) ==
    CASE tok.k = "string" -> "\"" \o JsonChars(tok.v, 1) \o "\""
      [] tok.k = "number" -> DecStr(tok.v)
      [] tok.k = "fraction" -> FloatStr(tok.v)
      [] OTHER -> tok.v

RECURSIVE SpellAll(_)
SpellAll(toks) == IF toks = <<>> THEN "" ELSE Spell(Head(toks)) \o SpellAll(Tail(toks))

IsPunct(toks, p, c) == p <= Len(toks) /\ toks[p].k = "punct" /\ toks[p].v = c

RECURSIVE SkipJsonWs(_, _)
SkipJsonWs(toks, p) ==
    IF p <= Len(toks) /\ toks[p].k = "ws" THEN SkipJsonWs(toks, p + 1) ELSE p

\* json.loads: ok is FALSE where the decoder raises JSONDecodeError
Parsed(val, pos) == [ok |-> TRUE, val |-> val, pos |-> pos]
ParseFail == [ok |-> FALSE, val |-> NoValue, pos |-> 0]

RECURSIVE ParseValue(_, _)
RECURSIVE ParseMembers(_, _, _)
RECURSIVE ParseElements(_, _, _)

ParseValue(toks, p0) ==
    LET p == SkipJsonWs(toks, p0) IN
    IF p > Len(toks) THEN ParseFail
    ELSE LET tok == toks[p] IN
         CASE tok.k = "string" -> Parsed(JStr(tok.v), p + 1)
           [] tok.k = "number" -> Parsed(JInt(tok.v), p + 1)
           [] tok.k = "fraction" -> Parsed(JFloat(tok.v), p + 1)
           [] tok.k = "word" /\ tok.v = "null" -> Parsed(JNull, p + 1)
           [] tok.k = "word" /\ tok.v = "true" -> Parsed(JBool(TRUE), p + 1)
           [] tok.k = "word" /\ tok.v = "false" -> Parsed(JBool(FALSE), p + 1)
           [] tok.k = "word" /\ tok.v = "NaN" -> Parsed(JNaN, p + 1)
           [] tok.k = "word" /\ tok.v = "Infinity" -> Parsed(JInf(1), p + 1)
           [] tok.k = "word" /\ tok.v = "-Infinity" -> Parsed(JInf(-1), p + 1)
           [] tok.k = "punct" /\ tok.v = "{" ->
                  LET q == SkipJsonWs(toks, p + 1) IN
                  IF IsPunct(toks, q, "}") THEN Parsed(JDict(<<>>, <<>>), q + 1)
                  ELSE ParseMembers(toks, q, JDict(<<>>, <<>>))
           [] tok.k = "punct" /\ tok.v = "[" ->
                  LET q == SkipJsonWs(toks, p + 1) IN
                  IF IsPunct(toks, q, "]") THEN Parsed(JList(<<>>), q + 1)
                  ELSE ParseElements(toks, q, <<>>)
           [] OTHER -> ParseFail

\* after "{" or ",": "key" : value, then "," or "}"; a key that comes again
\* keeps its place and takes the later value
ParseMembers(toks, p, acc) ==
    IF ~(p <= Len(toks) /\ toks[p].k = "string") THEN ParseFail
    ELSE LET c == SkipJsonWs(toks, p + 1) IN
         IF ~IsPunct(toks, c, ":") THEN ParseFail
         ELSE LET r == ParseValue(toks, c + 1) IN
              IF ~r.ok THEN ParseFail
              ELSE LET q == SkipJsonWs(toks, r.pos)
                       acc2 == JDict(With(acc.v, toks[p].v, r.val),
                                     IF Has(acc.v, toks[p].v) THEN acc.o
                                     ELSE Append(acc.o, toks[p].v))
                   IN IF IsPunct(toks, q, ",")
                      THEN ParseMembers(toks, SkipJsonWs(toks, q + 1), acc2)
                      ELSE IF IsPunct(toks, q, "}") THEN Parsed(acc2, q + 1)
                      ELSE ParseFail

\* after "[" or ",": value, then "," or "]"
ParseElements(toks, p, acc) ==
    LET r == ParseValue(toks, p) IN
    IF ~r.ok THEN ParseFail
    ELSE LET q == SkipJsonWs(toks, r.pos)
             acc2 == Append(acc, r.val)
         IN IF IsPunct(toks, q, ",") THEN ParseElements(toks, q + 1, acc2)
            ELSE IF IsPunct(toks, q, "]") THEN Parsed(JList(acc2), q + 1)
            ELSE ParseFail

json_loads(toks) ==
    LET r == ParseValue(toks, 1) IN
    IF r.ok /\ SkipJsonWs(toks, r.pos) > Len(toks) THEN r ELSE ParseFail

\* str.find / str.rfind of one punctuation character; 0 when absent
RECURSIVE FindPunct(_, _, _)
FindPunct(toks, c, from) ==
    IF from > Len(toks) THEN 0
    ELSE IF IsPunct(toks, from, c) THEN from
    ELSE FindPunct(toks, c, from + 1)

RECURSIVE RFindPunct(_, _, _)
RFindPunct(toks, c, from) ==
    IF from < 1 THEN 0
    ELSE IF IsPunct(toks, from, c) THEN from
    ELSE RFindPunct(toks, c, from - 1)

(***************************************************************************)
(* reasoning_profile_data.py: analyze_cardinal_profile                     *)
(***************************************************************************)
\* line 65: the number of characters of the profile that the prompt keeps
TruncationBudget == 1500

\* the truncation, were a profile of exactly the budget marked as cut
truncated_profile_AtBudget(profile) ==
    IF Len(profile) >= TruncationBudget
    THEN SubSeq(profile, 1, TruncationBudget) \o "..."
    ELSE profile

\* line 65
truncated_profile(profile) ==
    IF Len(profile) > TruncationBudget
    THEN SubSeq(profile, 1, TruncationBudget) \o "..."
    ELSE profile

\* lines 67-103: the three pieces of the prompt around the two embedded texts
PromptHead == "Analyze this Catholic Cardinal's profile data ... CARDINAL SUMMARY: "
PromptMiddle == " CARDINAL PROFILE (truncated): "
PromptTail == " For each category below, rate on a scale of 1-5 ..."

\* dict.get(key, default) of a dict of strings
PyGet(d, key, default) == IF Has(d.v, key) THEN d.v[key].v ELSE default

\* lines 61-103: the prompt built from cardinal_data
BuildPrompt(cardinal_data) ==
    LET summary == PyGet(cardinal_data, "summary", "")
        profile == PyGet(cardinal_data, "profile", "")
    IN PromptHead \o summary \o PromptMiddle \o truncated_profile(profile) \o PromptTail

ParseErrorObject(text) ==
    JDict([error |-> JStr("Failed to parse model response as JSON"),
           raw_response |-> JStr(SpellAll(text))], <<"error", "raw_response">>)
ApiErrorObject == JDict([error |-> JStr("API call failed: ")], <<"error">>)

\* lines 123-129: the text handed to json.loads
JsonCandidate(text) ==
    LET start_idx == FindPunct(text, "{", 1)
        end_idx == RFindPunct(text, "}", Len(text))
    IN IF start_idx > 0 /\ end_idx > start_idx
       THEN SubSeq(text, start_idx, end_idx)
       ELSE text

\* lines 117-134
ParseResponse(text) ==
    LET r == json_loads(JsonCandidate(text)) IN
    IF r.ok THEN r.val ELSE ParseErrorObject(text)

(***************************************************************************)
(* Python operators on these values.  A result whose raised is TRUE stands *)
(* for a KeyError or TypeError.                                            *)
(***************************************************************************)
\* key in x, key a string: a key of a dict, an element of a list, a
\* substring of a str
PyIn(key, x) ==
    CASE x.k = "dict" -> [raised |-> FALSE, val |-> Has(x.v, key)]
      [] x.k = "list" -> [raised |-> FALSE, val |-> \E j \in 1..Len(x.v) : x.v[j] = JStr(key)]
      [] x.k = "str" ->
             [raised |-> FALSE,
              val |-> \E i \in 1..(Len(x.v) - Len(key) + 1) :
                         SubSeq(x.v, i, i + Len(key) - 1) = key]
      [] OTHER -> [raised |-> TRUE, val |-> FALSE]

\* x[key], key a string
PyGetItem(x, key) ==
    IF x.k = "dict" /\ Has(x.v, key) THEN [raised |-> FALSE, val |-> x.v[key]]
    ELSE [raised |-> TRUE, val |-> NoValue]

\* repr of a str: the characters from i on, escaped for the chosen quote; a
\* control character other than \n, \r and \t is written \xXX
RECURSIVE ReprChars(_, _, _)
ReprChars(str, i, quote) ==
    IF i > Len(str) THEN ""
    ELSE LET c == SubSeq(str, i, i)
             code == ControlCode(c)
         IN (CASE c = "\\" -> "\\\\"
               [] c = quote -> "\\" \o quote
               [] c = "\n" -> "\\n"
               [] c = "\r" -> "\\r"
               [] c = "\t" -> "\\t"
               [] code >= 0 ->
                      "\\x" \o SubSeq("0123456789abcdef", (code \div 16) + 1, (code \div 16) + 1)
                             \o SubSeq("0123456789abcdef", (code % 16) + 1, (code % 16) + 1)
               [] OTHER -> c) \o ReprChars(str, i + 1, quote)

\* repr of a str: single quotes, double quotes when the text holds a single
\* quote and no double quote
PyReprStr(str) ==
    LET holds(c) == \E i \in 1..Len(str) : SubSeq(str, i, i) = c
        quote == IF holds("'") /\ ~holds("\"") THEN "\"" ELSE "'"
    IN quote \o ReprChars(str, 1, quote) \o quote

\* repr(x); ReprItems is the part of a list or dict from its j-th item on,
\* the items of a dict in insertion order
RECURSIVE PyRepr(_)
RECURSIVE ReprItems(_, _)
PyRepr(x) ==
    CASE x.k = "int" -> DecStr(x.v)
      [] x.k = "str" -> PyReprStr(x.v)
      [] x.k = "null" -> "None"
      [] x.k = "float" -> FloatStr(x.v)
      [] x.k = "inf" -> IF x.v < 0 THEN "-inf" ELSE "inf"
      [] x.k = "nan" -> "nan"
      [] x.k = "bool" -> IF x.v THEN "True" ELSE "False"
      [] x.k = "list" -> "[" \o ReprItems(x, 1) \o "]"
      [] x.k = "dict" -> "{" \o ReprItems(x, 1) \o "}"

ReprItems(x, j) ==
    LET n == IF x.k = "dict" THEN Len(x.o) ELSE Len(x.v) IN
    IF j > n THEN ""
    ELSE (IF x.k = "dict"
          THEN PyReprStr(x.o[j]) \o ": " \o PyRepr(x.v[x.o[j]])
          ELSE PyRepr(x.v[j]))
         \o (IF j < n THEN ", " ELSE "") \o ReprItems(x, j + 1)

\* str(x)
PyStr(x) == IF x.k = "str" THEN x.v ELSE PyRepr(x)

\* int(str) of ASCII text, read character by character from the i-th on.  st tells what
\* was read so far: "lead" (whitespace only), "sign" (a sign), "digit" (a
\* digit last), "under" (an underscore last), "trail" (whitespace after the
\* digits); neg that the sign was a minus; acc the digits read.  ok is FALSE
\* where int raises ValueError.  Whitespace is the space and the control
\* characters 9 to 13 (tab, line feed, vertical tab, form feed, return).
RECURSIVE ScanInt(_, _, _, _, _)
ScanInt(str, i, st, neg, acc) ==
    IF i > Len(str)
    THEN [ok |-> st \in {"digit", "trail"}, val |-> IF neg THEN -acc ELSE acc]
    ELSE LET c == SubSeq(str, i, i) IN
         CASE (c = " " \/ ControlCode(c) \in 9..13) /\ st = "lead" ->
                  ScanInt(str, i + 1, "lead", neg, acc)
           [] (c = " " \/ ControlCode(c) \in 9..13) /\ st \in {"digit", "trail"} ->
                  ScanInt(str, i + 1, "trail", neg, acc)
           [] c \in {"+", "-"} /\ st = "lead" ->
                  ScanInt(str, i + 1, "sign", c = "-", acc)
           [] IsDigit(c) /\ st \in {"lead", "sign", "digit", "under"} ->
                  ScanInt(str, i + 1, "digit", neg,
                          10 * acc + (CHOOSE d \in 0..9 : Digit[d + 1] = c))
           [] c = "_" /\ st = "digit" -> ScanInt(str, i + 1, "under", neg, acc)
           [] OTHER -> [ok |-> FALSE, val |-> 0]

\* int(x): exc names the exception int raises, "none" when it returns val; a
\* float is truncated towards zero; a str may have whitespace around it, a
\* sign, leading zeros and single underscores between its digits
PyInt(x) ==
    CASE x.k = "int" -> [exc |-> "none", val |-> x.v]
      [] x.k = "bool" -> [exc |-> "none", val |-> IF x.v THEN 1 ELSE 0]
      [] x.k = "float" ->
             [exc |-> "none",
              val |-> IF x.v < 0 THEN -((-x.v) \div 10) ELSE x.v \div 10]
      [] x.k = "inf" -> [exc |-> "OverflowError", val |-> 0]
      [] x.k = "nan" -> [exc |-> "ValueError", val |-> 0]
      [] x.k = "str" ->
             IF ScanInt(x.v, 1, "lead", FALSE, 0).ok
             THEN [exc |-> "none", val |-> ScanInt(x.v, 1, "lead", FALSE, 0).val]
             ELSE [exc |-> "ValueError", val |-> 0]
      [] OTHER -> [exc |-> "TypeError", val |-> 0]

Labels == <<"Strongly Conservative/Against", "Moderately Conservative/Against",
            "Neutral/Balanced", "Moderately Progressive/Supports",
            "Strongly Progressive/Supports">>

\* lines 190-202: the handler catches ValueError and TypeError (lines 201-202);
\* raised is TRUE where the exception of int() passes the handler
get_label_for_rating(rating) ==
    LET rating_num == PyInt(rating) IN
    IF rating_num.exc = "none"
    THEN [raised |-> FALSE,
          val |-> IF rating_num.val \in 1..5 THEN Labels[rating_num.val] ELSE Unknown]
    ELSE IF rating_num.exc \in {"ValueError", "TypeError"} THEN [raised |-> FALSE, val |-> Unknown]
    ELSE [raised |-> TRUE, val |-> ""]

\* lines 147-154 (and 156-163, 169-176, 178-185): one dimension of a group
RatingAttribute(group, key, issue_title, subtitle) ==
    LET present == PyIn(key, group) IN
    IF present.raised THEN [raised |-> TRUE, attributes |-> <<>>]
    ELSE IF ~present.val THEN [raised |-> FALSE, attributes |-> <<>>]
    ELSE LET item == PyGetItem(group, key)
             rating == IF item.raised THEN item ELSE PyGetItem(item.val, "rating")
             explanation == IF item.raised THEN item ELSE PyGetItem(item.val, "explanation")
             label == IF rating.raised THEN rating ELSE get_label_for_rating(rating.val)
         IN IF item.raised \/ rating.raised \/ label.raised \/ explanation.raised
            THEN [raised |-> TRUE, attributes |-> <<>>]
            ELSE [raised |-> FALSE,
                  attributes |-> <<[issue_title |-> issue_title,
                                    subtitle |-> subtitle,
                                    value |-> PyStr(rating.val),
                                    label |-> label.val,
                                    explanation |-> explanation.val]>>]

\* lines 144-163 and 166-185: the two dimensions of one group
GroupAttributes(analysis, group_key, first, second) ==
    LET present == PyIn(group_key, analysis) IN
    IF present.raised THEN [raised |-> TRUE, attributes |-> <<>>]
    ELSE IF ~present.val THEN [raised |-> FALSE, attributes |-> <<>>]
    ELSE LET group == PyGetItem(analysis, group_key) IN
         IF group.raised THEN [raised |-> TRUE, attributes |-> <<>>]
         ELSE LET a == RatingAttribute(group.val, first[1], first[2], first[3])
                  b == RatingAttribute(group.val, second[1], second[2], second[3])
              IN [raised |-> a.raised \/ b.raised,
                  attributes |-> a.attributes \o b.attributes]

\* lines 140-187
convert_to_attributes(analysis) ==
    LET t == GroupAttributes(analysis, "theological_stance",
                <<"conservative", "Theological Conservatism",
                  "Level of adherence to traditional theological positions">>,
                <<"reform_leaning", "Reform-Leaning Theology",
                  "Openness to theological reforms and changes">>)
        i == GroupAttributes(analysis, "issue_positions",
                <<"lgbtq_policies", "LGBTQ+ Policies",
                  "Positions on LGBTQ+ inclusion and related policies">>,
                <<"environmentalism", "Environmentalism",
                  "Positions on environmental issues and climate change">>)
    IN [raised |-> t.raised \/ i.raised, attributes |-> t.attributes \o i.attributes]

(***************************************************************************)
(* Pages of the source site, as the browser renders them.                  *)
(***************************************************************************)
Hidden(frag) == El("div", "", {}, "b", <<Txt(frag)>>)
SubItem(subtitle, kids) ==
    El("div", "", {"accordion-content"}, "",
       <<El("p", "", {"accordion-sub-title"}, "", <<Txt(<<subtitle>>)>>)>> \o kids)
Heading(title) ==
    El("div", "", {"accordion-heading"}, "",
       <<El("h3", "", {}, "",
            <<El("span", "", {"accordion-title"}, "", <<Txt(<<title>>)>>),
              Txt(<<WS, "See evidence">>)>>)>>)
Details(subitems) == El("div", "", {"accordion-details"}, "", subitems)
AccordionItem(title, subitems) ==
    El("div", "", {"accordion-item"}, "", <<Heading(title), Details(subitems)>>)
Stands(items) == El("div", "wherehestands", {}, "", items)
Document(kids) == El("[document]", "", {}, "", kids)
Bio == El("div", "", {"dynamic-entry-content"}, "", <<Txt(<<"bio">>)>>)

PageNoStands == Document(<<Bio>>)
PageEmptyStands == Document(<<Bio, Stands(<<>>)>>)
PageScenarioA ==
    Document(<<Bio, Stands(<<AccordionItem("Environmentalism",
        <<SubItem("Climate",
            <<Hidden(<<ValueKey, WS, "4", WS, LabelKey, WS, "Supports">>)>>)>>)>>)>>)
PagePrintR ==
    Document(<<Bio, Stands(<<AccordionItem("Liturgy",
        <<SubItem("Latin Mass",
            <<Hidden(<<"Array", WS, "(", WS, ValueKey, WS, "3", WS,
                       LabelKey, WS, "Neutral", WS, CloseParen>>)>>)>>)>>)>>)
PageOffScale ==
    Document(<<Bio, Stands(<<AccordionItem("Synodality",
        <<SubItem("Synod", <<Hidden(<<ValueKey, WS, "7", WS, LabelKey, WS, "Ambiguous">>)>>)>>)>>)>>)
PageLabelOnly ==
    Document(<<Bio, Stands(<<AccordionItem("Celibacy",
        <<SubItem("Priests", <<Hidden(<<LabelKey, WS, "Neutral">>)>>)>>)>>)>>)
PageNoHidden ==
    Document(<<Bio, Stands(<<AccordionItem("Migration", <<SubItem("Borders", <<>>)>>)>>)>>)

Pages == {PageNoStands, PageEmptyStands, PageScenarioA, PagePrintR, PageOffScale,
          PageLabelOnly, PageNoHidden}
NoPage == El("#none", "", {}, "", <<>>)

(***************************************************************************)
(* Texts the reasoning service answers with.                               *)
(***************************************************************************)
RECURSIVE CommaJoined(_)
CommaJoined(parts) ==
    IF parts = <<>> THEN <<>>
    ELSE IF Len(parts) = 1 THEN parts[1]
    ELSE parts[1] \o <<P(","), Sp>> \o CommaJoined(Tail(parts))

Member(key, value) == <<S(key), P(":"), Sp>> \o value
Obj(members) == <<P("{")>> \o CommaJoined(members) \o <<P("}")>>
Rating(rating, explanation) ==
    Obj(<<Member("rating", <<rating>>), Member("explanation", <<S(explanation)>>)>>)

RatingsObject(c, r, l, e) ==
    Obj(<<Member("theological_stance",
                 Obj(<<Member("conservative", Rating(c, "holds to tradition")),
                       Member("reform_leaning", Rating(r, "wary of reform"))>>)),
          Member("issue_positions",
                 Obj(<<Member("lgbtq_policies", Rating(l, "opposes blessings")),
                       Member("environmentalism", Rating(e, "cites Laudato Si"))>>))>>)

ResponsePure == RatingsObject(N(4), N(2), N(1), N(5))
ResponseProse ==
    <<W("Here is the result:"), Sp>> \o ResponsePure \o <<Sp, W("Hope this helps.")>>
ResponseNotJson == <<W("I cannot rate this cardinal.")>>
ResponseTruncated == SubSeq(ResponsePure, 1, Len(ResponsePure) - 2)
ResponseArray ==
    LET NoteObject == Obj(<<Member("note", <<S("n")>>)>>)
    IN <<P("[")>> \o NoteObject \o <<P(","), Sp>> \o NoteObject \o <<P("]")>>
ResponseOffScale == RatingsObject(N(9), N(2), N(1), N(5))
ResponseWordRating == RatingsObject(S("high"), N(2), N(1), N(5))
ResponseNoRating ==
    Obj(<<Member("theological_stance",
                 Obj(<<Member("conservative",
                              Obj(<<Member("explanation", <<S("no number")>>)>>))>>))>>)
ResponsePartial ==
    Obj(<<Member("theological_stance",
                 Obj(<<Member("conservative", Rating(N(3), "mixed record"))>>))>>)
ResponseErrorKey == Obj(<<Member("error", <<S("insufficient data")>>)>>)

Responses == {ResponsePure, ResponseProse, ResponseNotJson, ResponseTruncated,
              ResponseArray, ResponseOffScale, ResponseWordRating, ResponseNoRating,
              ResponsePartial, <<N(5)>>, ResponseErrorKey,
              RatingsObject(W("Infinity"), N(2), N(1), N(5)),
              RatingsObject(F(59), N(2), N(1), N(5)),
              RatingsObject(S(" 3 "), N(2), N(1), N(5)),
              Obj(<<Member("theological_stance",
                           Obj(<<Member("conservative",
                                        Obj(<<Member("rating", <<P("["), N(3), P(","), Sp,
                                                               S("3\f"), P("]")>>),
                                              Member("explanation",
                                                     <<S("mixed record")>>)>>))>>))>>),
              Obj(<<Member("theological_stance", <<S("very conservative")>>)>>),
              <<S("an error occurred")>>}

\* pages extract_cardinal_data fetches
ProfilePages == {PageNoStands, Document(<<>>)}

(***************************************************************************)
(* Entity records.  A record is a function from its keys; a key the record *)
(* lacks is outside its domain.                                            *)
(***************************************************************************)
OldAttribute ==
    [issue_title |-> "Liturgy", subtitle |-> "Latin Mass", value |-> "2", label |-> "Opposes"]

EntityKinds == {"stub", "nourl", "enriched"}
Entity(k, kind) ==
    LET name == "cardinal" \o DecStr(k)
        url == "http://site/" \o DecStr(k)
    IN CASE kind = "stub" -> [name |-> name, profile_url |-> url]
         [] kind = "nourl" -> [name |-> name]
         [] kind = "enriched" ->
                [name |-> name, profile_url |-> url, attributes |-> <<OldAttribute>>]

Collections ==
    UNION {{[k \in 1..n |-> Entity(k, kinds[k])] : kinds \in [1..n -> EntityKinds]}
           : n \in 0..MaxEntities}

\* profile_scraper.py lines 216-218: a value that is not a list becomes a
\* list of one
Entities(json_data) == IF json_data.k = "list" THEN json_data.v ELSE <<json_data.v>>

NotWritten == [written |-> FALSE, content |-> <<>>]
Written(content) == [written |-> TRUE, content |-> content]

\* os.environ.get("GROQ_API_KEY"): None when the variable is not set
EnvKeys == {NoValue, JStr(""), JStr("gsk_key")}

\* the input file holds a list of entities, or one entity object (kind
\* "object").  The scraping pass starts in main with its input loaded and
\* made a list; the reasoning pass starts at the import of its module, and
\* never reads the key otherwise
Init ==
    /\ stage \in {"scrape", "reason"}
    /\ in_file \in {JList(c) : c \in Collections}
                  \cup {[k |-> "object", v |-> Entity(1, kind)] : kind \in EntityKinds}
    /\ data = IF stage = "scrape" THEN Entities(in_file) ELSE <<>>
    /\ pc = IF stage = "scrape" THEN "s_next" ELSE "r_import"
    /\ idx = 1
    /\ updated_data = <<>>
    /\ out_file = NotWritten
    /\ page = NoPage
    /\ profile_data = NoValue
    /\ analysis_text = <<>>
    /\ analysis_results = NoValue
    /\ exc = "none"
    /\ since_req = 0
    /\ delays = 0
    /\ groq_api_key \in IF stage = "reason" THEN EnvKeys ELSE {NoValue}
    /\ visible = FALSE
    /\ fn = "none"
    /\ arg = NoValue
    /\ ret = NoValue

(***************************************************************************)
(* profile_scraper.py                                                      *)
(***************************************************************************)
\* line 38: page.locator("#wherehestands").count() > 0
HasStandsSection(doc) == \E j \in 1..Len(DescPaths(doc)) :
                             NodeAt(doc, DescPaths(doc)[j]).id = "wherehestands"

\* lines 86-97: what the entity becomes once the page content is extracted
ApplyAttributes(profile, attributes) ==
    IF attributes # <<>> THEN With(profile, "attributes", attributes) ELSE profile

\* the outer handler, were the attributes assigned before the failing call
OnEntityError_Enriched(profile, doc) ==
    ApplyAttributes(profile, extract_issues_from_html(doc))

\* lines 99-101: what the entity becomes when the outer handler catches
OnEntityError(profile, doc) == profile

\* lines 200-202, 20-23: the loop takes the next entity; the two subscripts
\* are outside the try block
ScrapeEnter ==
    /\ stage = "scrape" /\ pc = "s_next" /\ idx <= Len(data)
    /\ pc' = IF Has(data[idx], "profile_url") /\ Has(data[idx], "name")
             THEN "s_goto" ELSE "crashed"
    /\ exc' = "none"
    /\ UNCHANGED <<callvars, groq_api_key, visible, stage, in_file, data, idx, updated_data, out_file, page,
                   profile_data, analysis_text, analysis_results, since_req, delays>>

\* lines 26-35: launch, new page, goto
ScrapeGoto ==
    /\ stage = "scrape" /\ pc = "s_goto"
    /\ since_req' = idx
    /\ \/ /\ exc' = "navigation"
          /\ data' = [data EXCEPT ![idx] = OnEntityError(@, NoPage)]
          /\ pc' = "s_append"
          /\ page' = NoPage
          /\ visible' = FALSE
       \/ /\ \E doc \in Pages : page' = doc
          /\ visible' \in BOOLEAN
          /\ pc' = "s_probe"
          /\ UNCHANGED <<exc, data>>
    /\ UNCHANGED <<callvars, groq_api_key, stage, in_file, idx, updated_data, out_file,
                   profile_data, analysis_text, analysis_results, delays>>

\* the position after the probe, were the early return missing
AfterProbe_NoEarlyReturn(has_section) == "s_more"

\* lines 40-52: the position after the probe
AfterProbe(has_section) == IF has_section THEN "s_more" ELSE "s_append"

\* lines 38-52: the presence probe
ScrapeProbe ==
    /\ stage = "scrape" /\ pc = "s_probe"
    /\ \/ /\ exc' = "probe"
          /\ data' = [data EXCEPT ![idx] = OnEntityError(@, page)]
          /\ pc' = "s_append"
          /\ visible' = FALSE
       \/ /\ pc' = AfterProbe(HasStandsSection(page))
          /\ visible' = IF pc' = "s_more" THEN visible ELSE FALSE
          /\ UNCHANGED <<exc, data>>
       \/ /\ AfterProbe(HasStandsSection(page)) = "s_append"   \* line 43: the exit
          /\ exc' = "exit"                  \* of the playwright context raised
          /\ data' = [data EXCEPT ![idx] = OnEntityError(@, page)]
          /\ pc' = "s_append"
          /\ visible' = FALSE
    /\ UNCHANGED <<callvars, groq_api_key, stage, in_file, idx, updated_data, out_file, page,
                   profile_data, analysis_text, analysis_results, since_req, delays>>

\* the loop condition, were one batch of further content the most
LoopGoesOn_Once(is_visible) == FALSE

\* lines 54-60: more_content_available after the check of the control; no
\* count of the clicks enters it (click_count, lines 52 and 64-65, is
\* written to the log only and the model keeps no such count)
LoopGoesOn(is_visible) == is_visible

\* lines 54-65: the check of the control and the click
ScrapeLoadMore ==
    /\ stage = "scrape" /\ pc = "s_more"
    /\ \/ /\ pc' = IF LoopGoesOn(visible) THEN "s_wait" ELSE "s_content"
          /\ UNCHANGED exc
       \/ /\ pc' = "s_content"                     \* is_visible or click raised:
          /\ exc' = "loop"                         \* the handler of lines 73-77
    /\ UNCHANGED <<callvars, groq_api_key, visible, stage, in_file, data, idx, updated_data, out_file, page,
                   profile_data, analysis_text, analysis_results, since_req, delays>>

\* lines 68-77: the wait for the network and the settle delay; the click made
\* the site load content and show the control again, or not
ScrapeLoadWait ==
    /\ stage = "scrape" /\ pc = "s_wait"
    /\ \/ /\ pc' = "s_more"
          /\ visible' \in BOOLEAN
          /\ UNCHANGED exc
       \/ /\ pc' = "s_content"                     \* the wait raised: the
          /\ exc' = "loop"                         \* handler of lines 73-77
          /\ UNCHANGED visible
    /\ UNCHANGED <<callvars, groq_api_key, stage, in_file, data, idx, updated_data, out_file, page,
                   profile_data, analysis_text, analysis_results, since_req, delays>>

\* lines 80-101: page.content(), browser.close(), extraction, assignment,
\* and the return through the exit of the playwright context: when the exit
\* raises, the handler returns the entity that line 90 has already changed
ScrapeContent ==
    /\ stage = "scrape" /\ pc = "s_content"
    /\ \/ /\ exc' = "content"
          /\ data' = [data EXCEPT ![idx] = OnEntityError(@, page)]
       \/ /\ data' = [data EXCEPT ![idx] = ApplyAttributes(@, extract_issues_from_html(page))]
          /\ UNCHANGED exc
       \/ /\ data' = [data EXCEPT ![idx] = ApplyAttributes(@, extract_issues_from_html(page))]
          /\ exc' = "exit"
    /\ pc' = "s_append"
    /\ visible' = FALSE
    /\ UNCHANGED <<callvars, groq_api_key, stage, in_file, idx, updated_data, out_file, page,
                   profile_data, analysis_text, analysis_results, since_req, delays>>

\* the delay, were it skipped for an entity that failed
AfterAppend_SkipOnError(e) == IF e = "none" THEN "s_sleep" ELSE "s_next"

\* the output file, were the collection saved after every entity
FileAfterEntity_Saved(file, collection) == [written |-> TRUE, content |-> collection]

\* lines 203-206: what follows the append of an entity whose handling met
\* the exception e ("none" when it met none)
AfterAppend(e) == "s_sleep"

\* lines 200-206: the output file after one entity
FileAfterEntity(file, collection) == file

\* the list being built, were an entity that got no attributes left out
AppendEntity_OnlyEnriched(collection, entity) ==
    IF Has(entity, "attributes") THEN Append(collection, entity) ELSE collection

\* line 203: updated_data.append(updated_profile)
AppendEntity(collection, entity) == Append(collection, entity)

\* line 203
ScrapeAppend ==
    /\ stage = "scrape" /\ pc = "s_append"
    /\ updated_data' = AppendEntity(updated_data, data[idx])
    /\ out_file' = FileAfterEntity(out_file, updated_data')
    /\ page' = NoPage
    /\ idx' = idx + 1
    /\ pc' = AfterAppend(exc)
    /\ UNCHANGED <<callvars, groq_api_key, visible, stage, in_file, data,
                   profile_data, analysis_text, analysis_results, exc, since_req, delays>>

\* line 206
ScrapeSleep ==
    /\ stage = "scrape" /\ pc = "s_sleep"
    /\ delays' = delays + 1
    /\ since_req' = 0
    /\ pc' = "s_next"
    /\ UNCHANGED <<callvars, groq_api_key, visible, stage, in_file, data, idx, updated_data, out_file, page,
                   profile_data, analysis_text, analysis_results, exc>>

\* lines 208, 224-228: the loop is over, main writes the collection
ScrapeWrite ==
    /\ stage = "scrape" /\ pc = "s_next" /\ idx > Len(data)
    /\ out_file' = Written(updated_data)
    /\ pc' = "done"
    /\ UNCHANGED <<callvars, groq_api_key, visible, stage, in_file, data, idx, updated_data, page,
                   profile_data, analysis_text, analysis_results, exc, since_req, delays>>

(***************************************************************************)
(* reasoning_profile_data.py                                               *)
(***************************************************************************)
\* lines 10-38, on a page the site returned
extract_cardinal_data(soup) ==
    LET summary_div == FindAll(soup, Sel("div", "", "cardinals-summary-block", ""))
        profile_div == FindAll(soup, Sel("div", "", "dynamic-entry-content", ""))
    IN JDict([summary |-> IF summary_div # <<>>
                          THEN JStr(Join(StrippedText(NodeAt(soup, summary_div[1]))))
                          ELSE JStr("Summary not found"),
              profile |-> IF profile_div # <<>>
                          THEN JStr(Join(StrippedText(NodeAt(soup, profile_div[1]))))
                          ELSE JStr("Profile not found")],
             <<"summary", "profile">>)

\* lines 236-245: the entity after the merge
MergeAnalysis(cardinal, new_attributes, analysis) ==
    LET old == IF Has(cardinal, "attributes") THEN cardinal["attributes"] ELSE <<>> IN
    With(With(cardinal, "attributes", old \o new_attributes), "analysis_results", analysis)

\* the entity, were the error object stored on it
OnAnalysisError_Stored(cardinal, analysis) == With(cardinal, "analysis_results", analysis)

\* lines 227-231: the entity when the analysis carries an error
OnAnalysisError(cardinal, analysis) == cardinal

\* the position after the import, were the key not checked
AfterImport_NoCheck(key) == "r_main"

\* lines 41-44: not groq_api_key
AfterImport(key) == IF key = NoValue \/ key = JStr("") THEN "exited" ELSE "r_main"

\* lines 40-46: the module is imported; exit(1) when the key is missing
ReasonImport ==
    /\ stage = "reason" /\ pc = "r_import"
    /\ pc' = AfterImport(groq_api_key)
    /\ UNCHANGED <<callvars, groq_api_key, visible, stage, in_file, data, idx, updated_data,
                   out_file, page, profile_data, analysis_text,
                   analysis_results, exc, since_req, delays>>

\* lines 255-263, 206-207: main loads the input file and hands it on as it
\* is.  The loop over a file that holds one object takes the keys of the
\* object, and the first key, a str, has no get (AttributeError at line 207).
ReasonLoad ==
    /\ stage = "reason" /\ pc = "r_main"
    /\ IF in_file.k = "list"
       THEN data' = in_file.v /\ pc' = "r_next"
       ELSE pc' = "crashed" /\ UNCHANGED data
    /\ UNCHANGED <<callvars, groq_api_key, visible, stage, in_file, idx, updated_data,
                   out_file, page, profile_data, analysis_text,
                   analysis_results, exc, since_req, delays>>

\* lines 206-212
ReasonEnter ==
    /\ stage = "reason" /\ pc = "r_next" /\ idx <= Len(data)
    /\ exc' = "none"
    /\ IF Has(data[idx], "profile_url")
       THEN pc' = "r_fetch" /\ UNCHANGED idx
       ELSE pc' = "r_next" /\ idx' = idx + 1
    /\ UNCHANGED <<callvars, groq_api_key, visible, stage, in_file, data, updated_data, out_file, page,
                   profile_data, analysis_text, analysis_results, since_req, delays>>

\* lines 214-221
ReasonFetch ==
    /\ stage = "reason" /\ pc = "r_fetch"
    /\ since_req' = idx
    /\ \/ /\ exc' = "fetch"
          /\ profile_data' = JNull
          /\ pc' = "r_next"
          /\ idx' = idx + 1
       \/ /\ \E soup \in ProfilePages : profile_data' = extract_cardinal_data(soup)
          /\ pc' = "r_analyze"
          /\ UNCHANGED <<exc, idx>>
    /\ UNCHANGED <<callvars, groq_api_key, visible, stage, in_file, data, updated_data, out_file, page,
                   analysis_text, analysis_results, delays>>

\* lines 225, 105-137
ReasonAnalyze ==
    /\ stage = "reason" /\ pc = "r_analyze"
    /\ \/ /\ exc' = "api"
          /\ analysis_text' = <<>>
          /\ analysis_results' = ApiErrorObject
       \/ /\ \E text \in Responses :
                /\ analysis_text' = text
                /\ analysis_results' = ParseResponse(text)
          /\ UNCHANGED exc
    /\ pc' = "r_merge"
    /\ UNCHANGED <<callvars, groq_api_key, visible, stage, in_file, data, idx, updated_data, out_file, page,
                   profile_data, since_req, delays>>

\* lines 227-245
ReasonMerge ==
    /\ stage = "reason" /\ pc = "r_merge"
    /\ LET is_error == PyIn("error", analysis_results)
           converted == convert_to_attributes(analysis_results)
       IN IF is_error.raised
          THEN pc' = "crashed" /\ UNCHANGED <<data, idx>>
          ELSE IF is_error.val
          THEN IF PyGetItem(analysis_results, "error").raised
               THEN pc' = "crashed" /\ UNCHANGED <<data, idx>>
               ELSE /\ data' = [data EXCEPT ![idx] = OnAnalysisError(@, analysis_results)]
                    /\ pc' = "r_next"
                    /\ idx' = idx + 1
          ELSE IF converted.raised
          THEN pc' = "crashed" /\ UNCHANGED <<data, idx>>
          ELSE /\ data' = [data EXCEPT ![idx] =
                              MergeAnalysis(@, converted.attributes, analysis_results)]
               /\ pc' = "r_sleep"
               /\ UNCHANGED idx
    /\ UNCHANGED <<callvars, groq_api_key, visible, stage, in_file, updated_data, out_file, page,
                   profile_data, analysis_text, analysis_results, exc, since_req, delays>>

\* lines 247-250
ReasonSleep ==
    /\ stage = "reason" /\ pc = "r_sleep"
    /\ IF idx < Len(data)
       THEN delays' = delays + 1 /\ since_req' = 0
       ELSE UNCHANGED <<delays, since_req>>
    /\ idx' = idx + 1
    /\ pc' = "r_next"
    /\ out_file' = FileAfterEntity(out_file, data)
    /\ UNCHANGED <<callvars, groq_api_key, visible, stage, in_file, data, updated_data, page,
                   profile_data, analysis_text, analysis_results, exc>>

\* lines 252, 264-268
ReasonWrite ==
    /\ stage = "reason" /\ pc = "r_next" /\ idx > Len(data)
    /\ out_file' = Written(data)
    /\ pc' = "done"
    /\ UNCHANGED <<callvars, groq_api_key, visible, stage, in_file, data, idx, updated_data, page,
                   profile_data, analysis_text, analysis_results, exc, since_req, delays>>

Next ==
    \/ ScrapeEnter \/ ScrapeGoto \/ ScrapeProbe \/ ScrapeLoadMore \/ ScrapeLoadWait
    \/ ScrapeContent \/ ScrapeAppend \/ ScrapeSleep \/ ScrapeWrite
    \/ ReasonImport \/ ReasonLoad
    \/ ReasonEnter \/ ReasonFetch \/ ReasonAnalyze \/ ReasonMerge
    \/ ReasonSleep \/ ReasonWrite

Spec == Init /\ [][Next]_vars

(***************************************************************************)
(* The scraping pass over at most one entity; the script keeps running, so *)
(* a step of the load-more loop that can be taken is taken.                *)
(***************************************************************************)
LoaderInit == Init /\ stage = "scrape" /\ Len(Entities(in_file)) <= 1

LoaderNext ==
    \/ ScrapeEnter \/ ScrapeGoto \/ ScrapeProbe \/ ScrapeLoadMore \/ ScrapeLoadWait
    \/ ScrapeContent \/ ScrapeAppend \/ ScrapeSleep \/ ScrapeWrite

Loader ==
    LoaderInit /\ [][LoaderNext]_vars /\ WF_vars(ScrapeLoadMore) /\ WF_vars(ScrapeLoadWait)

(***************************************************************************)
(* The functions of the two scripts, each called on its own on every       *)
(* argument of a bounded set.                                              *)
(***************************************************************************)
\* ratings: what json.loads can put under the key "rating"
RatingInputs ==
    {JInt(n) : n \in -MaxInt..MaxInt}
    \cup {JFloat(t) : t \in (-10 * MaxInt)..(10 * MaxInt)}
    \cup {JStr(DecStr(n)) : n \in -MaxInt..MaxInt}
    \cup {JStr(" 3 "), JStr("+3"), JStr("03"), JStr("-0"), JStr("1_3"), JStr("3_"),
          JStr("\t5\n"), JStr("3"), JStr("  4 "), JStr("3\f"), JStr("3"),
          JStr("- 3"), JStr("+"), JStr(" ")}
    \cup {JStr("high"), JStr(""), JStr("3.5"), JNull, JNaN, JInf(1), JInf(-1),
          JBool(TRUE), JBool(FALSE), JList(<<>>), JList(<<JInt(3)>>),
          JDict(<<>>, <<>>), JDict([rating |-> JInt(3)], <<"rating">>)}

\* hidden fragments with a value entry and a label entry: the text before
\* the entries, the two entries in either order, the text after them
FragmentParts ==
    [order : {"value_first", "label_first"},
     n : {<<"4">>, <<"1", "2">>},
     l : {<<"Supports">>, <<"Strongly", WS, "Against">>},
     before : {<<>>, <<"Array", WS, "(", WS>>},
     after : {<<>>, <<WS, CloseParen>>, <<CloseParen, WS, "note">>}]

Fragment(q) ==
    LET value_entry == <<ValueKey, WS>> \o q.n
        label_entry == <<LabelKey, WS>> \o q.l
    IN q.before
       \o (IF q.order = "value_first" THEN value_entry \o <<WS>> \o label_entry
           ELSE label_entry \o <<WS>> \o value_entry)
       \o q.after

\* hidden fragments with neither entry
PlainFragments ==
    {<<>>, <<"no", WS, "data">>, <<"Array", WS, "(", WS, CloseParen>>,
     <<ValueKey, WS, "n/a">>, <<"[label]", WS, "Neutral">>}

\* a stands section with one item and one sub-item, its hidden fragment frag
FragmentPage(frag) ==
    Document(<<Stands(<<AccordionItem("Liturgy",
        <<SubItem("Latin Mass", <<Hidden(frag)>>)>>)>>)>>)

FragmentPages ==
    {FragmentPage(Fragment(q)) : q \in FragmentParts}
    \cup {FragmentPage(f) : f \in PlainFragments}

\* profile texts of a given length: a run of one character, closed by the
\* last digit of the length
RECURSIVE Run(_)
Run(n) ==
    IF n <= 0 THEN ""
    ELSE IF n % 2 = 0 THEN LET half == Run(n \div 2) IN half \o half
    ELSE Run(n - 1) \o "x"
ProfileText(n) == IF n = 0 THEN "" ELSE Run(n - 1) \o Digit[(n % 10) + 1]

\* the lengths: short texts, and texts around the budget
ProfileLengths ==
    0..MaxOver \cup (TruncationBudget - MaxOver)..(TruncationBudget + MaxOver)

\* what extract_cardinal_data returns, and dicts that lack one of the keys
PromptInputs ==
    {JDict([summary |-> JStr(sm), profile |-> JStr(ProfileText(n))],
           <<"summary", "profile">>) :
        sm \in {"", "Summary not found", "Born in 1950."}, n \in ProfileLengths}
    \cup {JDict([summary |-> JStr("Born in 1950.")], <<"summary">>)}
    \cup {JDict([profile |-> JStr(ProfileText(n))], <<"profile">>) : n \in ProfileLengths}

\* documents without the stands section: nothing at all, a biography, an
\* accordion outside any section, a section of another tag, a div that has
\* the name as its class, a div whose id is spelled otherwise
NoSectionPages ==
    LET item == AccordionItem("Liturgy",
                    <<SubItem("Latin Mass",
                        <<Hidden(<<ValueKey, WS, "3", WS, LabelKey, WS, "Neutral">>)>>)>>)
    IN {Document(<<>>),
        PageNoStands,
        Document(<<Bio, item>>),
        Document(<<El("section", "wherehestands", {}, "", <<item>>)>>),
        Document(<<El("div", "", {"wherehestands"}, "", <<item>>)>>),
        Document(<<El("div", "where-he-stands", {}, "", <<item>>)>>)}

\* stands sections of up to MaxItems accordion items, item k with counts[k]
\* sub-items.  In the layout "wrapped" every item has an element of its own
\* that holds its heading and its details block; in the layout "flat" the
\* headings and details blocks are all children of the section, each details
\* block after its heading.
Layouts == {"wrapped", "flat"}
ItemCounts == UNION {[1..n -> 0..MaxSubItems] : n \in 0..MaxItems}

\* what sub-item j of item k says
SubRecord(k, j) ==
    [issue_title |-> "Issue " \o DecStr(k),
     subtitle |-> "Stance " \o DecStr(k) \o "." \o DecStr(j),
     value |-> Digit[((k + j) % 5) + 2],
     label |-> IF (k + j) % 2 = 0 THEN "Supports" ELSE "Opposes"]

\* the n sub-items of item k
ItemSubItems(k, n) ==
    [j \in 1..n |->
        SubItem(SubRecord(k, j).subtitle,
                <<Hidden(<<"Array", WS, "(", WS, ValueKey, WS, SubRecord(k, j).value, WS,
                           LabelKey, WS, SubRecord(k, j).label, WS, CloseParen>>)>>)]

WrappedItems(counts) ==
    [k \in 1..Len(counts) |->
        AccordionItem(SubRecord(k, 1).issue_title, ItemSubItems(k, counts[k]))]

RECURSIVE FlatItems(_, _)
FlatItems(counts, k) ==
    IF k > Len(counts) THEN <<>>
    ELSE <<Heading(SubRecord(k, 1).issue_title), Details(ItemSubItems(k, counts[k]))>>
         \o FlatItems(counts, k + 1)

StandsPage(layout, counts) ==
    Document(<<Bio, Stands(IF layout = "wrapped" THEN WrappedItems(counts)
                           ELSE FlatItems(counts, 1))>>)

LayoutPages == {StandsPage(layout, counts) : layout \in Layouts, counts \in ItemCounts}

CallInputs(f) ==
    CASE f = "get_label_for_rating" -> RatingInputs
      [] f = "extract_issues_from_html" ->
             Pages \cup FragmentPages \cup NoSectionPages \cup LayoutPages
      [] f = "analyze_cardinal_profile" -> PromptInputs

CallsInit ==
    /\ stage = "call"
    /\ pc = "call"
    /\ fn \in {"get_label_for_rating", "extract_issues_from_html",
              "analyze_cardinal_profile"}
    /\ arg \in CallInputs(fn)
    /\ ret = NoValue
    /\ in_file = JList(<<>>)
    /\ data = <<>>
    /\ idx = 1
    /\ updated_data = <<>>
    /\ out_file = NotWritten
    /\ page = NoPage
    /\ profile_data = NoValue
    /\ analysis_text = <<>>
    /\ analysis_results = NoValue
    /\ exc = "none"
    /\ since_req = 0
    /\ delays = 0
    /\ groq_api_key = JStr("gsk_key")
    /\ visible = FALSE

\* the variables of the passes
passvars == <<stage, in_file, data, idx, updated_data, out_file, page,
              profile_data, analysis_text, analysis_results, exc, since_req, delays,
              groq_api_key, visible>>

\* reasoning_profile_data.py lines 190-202
CallGetLabel ==
    /\ pc = "call" /\ fn = "get_label_for_rating"
    /\ ret' = get_label_for_rating(arg)
    /\ pc' = "returned"
    /\ UNCHANGED <<passvars, fn, arg>>

\* profile_scraper.py lines 104-184
CallExtract ==
    /\ pc = "call" /\ fn = "extract_issues_from_html"
    /\ ret' = extract_issues_from_html(arg)
    /\ pc' = "returned"
    /\ UNCHANGED <<passvars, fn, arg>>

\* reasoning_profile_data.py lines 60-103: the prompt analyze_cardinal_profile
\* sends
CallPrompt ==
    /\ pc = "call" /\ fn = "analyze_cardinal_profile"
    /\ ret' = BuildPrompt(arg)
    /\ pc' = "returned"
    /\ UNCHANGED <<passvars, fn, arg>>

CallsNext ==
    \/ CallGetLabel
    \/ CallExtract
    \/ CallPrompt

Calls == CallsInit /\ [][CallsNext]_vars

(***************************************************************************)
(* Properties.                                                             *)
(***************************************************************************)
\* the entities of the input file
Input == Entities(in_file)

IsPrefix(a, b) == Len(a) <= Len(b) /\ SubSeq(b, 1, Len(a)) = a
Attributes(e) == IF Has(e, "attributes") THEN e["attributes"] ELSE <<>>
Collection == IF stage = "scrape" THEN updated_data ELSE data
\* the entities whose handling is over
Completed == 1..(idx - 1)

\* C1: in both passes no failure of one entity (navigation or fetch error,
\* service error, a response that is not JSON or is JSON of an unexpected
\* shape) ends the run: a run over entities that all have a profile_url never
\* stops on an uncaught exception.
C1_EntityFailuresConfined ==
    (\A j \in 1..Len(Input) : Has(Input[j], "profile_url")) => pc # "crashed"

\* C2 as stated: at every point of a run the output file holds the enrichment
\* of every entity whose handling is over.
C2_SavedAfterEachEntity ==
    \A j \in Completed :
        data[j] # Input[j] =>
            /\ out_file.written
            /\ Len(out_file.content) >= j
            /\ out_file.content[j] = data[j]

\* C2 amended: the output file is written once, when the pass has handled the
\* last entity, and then holds the whole collection; while the pass runs, and
\* when it stops on an exception, the file holds nothing of this run.
C2_SavedOnlyOnCompletion ==
    /\ out_file.written <=> pc = "done"
    /\ pc = "done" => out_file.content = Collection
    /\ pc # "done" => out_file = NotWritten

\* a run stopped after an entity was enriched, with nothing saved
C2_Witness ==
    /\ pc = "crashed"
    /\ \E j \in 1..(idx - 1) : data[j] # Input[j]
    /\ ~out_file.written

\* C3: an entity without profile_url is skipped by the orchestrator of each
\* pass: it is left as it was and the run goes on with the next entity, so no
\* run stops on such an entity.
C3_NoUrlSkipped ==
    \A j \in 1..Len(data) :
        ~Has(Input[j], "profile_url") =>
            /\ ~(pc = "crashed" /\ idx = j)
            /\ data[j] = Input[j]

\* the parse the claim describes: the substring from the first { to the last },
\* then the whole response, then the error object
ClaimedParse(text) ==
    LET start_idx == FindPunct(text, "{", 1)
        end_idx == RFindPunct(text, "}", Len(text))
        inner == IF start_idx > 0 /\ end_idx > start_idx
                 THEN json_loads(SubSeq(text, start_idx, end_idx))
                 ELSE ParseFail
        whole == json_loads(text)
    IN IF inner.ok THEN inner.val
       ELSE IF whole.ok THEN whole.val
       ELSE JDict([error |-> JStr("Failed to parse model response as JSON"),
                   raw_response |-> JStr(SpellAll(text))], <<"error", "raw_response">>)

\* C4: analyze_cardinal_profile returns the parse of the substring from the
\* first { to the last }, else the parse of the whole response, and the error
\* object only when both fail.
C4_RawTriedAfterSubstring ==
    (pc = "r_merge" /\ exc = "none") => analysis_results = ClaimedParse(analysis_text)

Unparseable(text) == ClaimedParse(text) =
    JDict([error |-> JStr("Failed to parse model response as JSON"),
           raw_response |-> JStr(SpellAll(text))], <<"error", "raw_response">>)

\* C5: when the response cannot be parsed as JSON at all, the client returns
\* the error object with the original text, and process_cardinals leaves the
\* entity as it was and goes on with the next entity.
C5_UnparseableSkipped ==
    [][(pc = "r_merge" /\ exc = "none" /\ Unparseable(analysis_text)) =>
           /\ analysis_results =
                  JDict([error |-> JStr("Failed to parse model response as JSON"),
                         raw_response |-> JStr(SpellAll(analysis_text))], <<"error", "raw_response">>)
           /\ data' = data
           /\ data[idx] = Input[idx]
           /\ pc' = "r_next"
           /\ idx' = idx + 1]_vars

\* the entity after an unparseable response was skipped, the next one fetched
C5_Witness ==
    /\ stage = "reason" /\ pc = "r_fetch" /\ idx = 2
    /\ analysis_text = ResponseNotJson
    /\ analysis_results.k = "dict" /\ Has(analysis_results.v, "raw_response")
    /\ data[1] = Input[1]

IsErrorObject(x) == x.k = "dict" /\ Has(x.v, "error")
IsDimension(x) ==
    /\ x.k = "dict"
    /\ DOMAIN x.v = {"rating", "explanation"}
    /\ x.v["rating"].k = "int" /\ x.v["rating"].v \in 1..5
    /\ x.v["explanation"].k = "str"
IsGroup(x, first, second) ==
    /\ x.k = "dict"
    /\ DOMAIN x.v = {first, second}
    /\ IsDimension(x.v[first]) /\ IsDimension(x.v[second])
IsRatingObject(x) ==
    /\ x.k = "dict"
    /\ DOMAIN x.v = {"theological_stance", "issue_positions"}
    /\ IsGroup(x.v["theological_stance"], "conservative", "reform_leaning")
    /\ IsGroup(x.v["issue_positions"], "lgbtq_policies", "environmentalism")

\* C6: every result of analyze_cardinal_profile is an error object or a rating
\* object with exactly the four dimensions, each with an integer rating in
\* 1..5 and a textual explanation.
C6_ResultWellFormed ==
    pc = "r_merge" => IsErrorObject(analysis_results) \/ IsRatingObject(analysis_results)

OnScale(a) ==
    \/ \E n \in 1..5 : a.value = DecStr(n)
    \/ a.value = Unknown /\ a.label = Unknown

\* C7: every attribute record on an entity has a value that is the decimal
\* string of an integer in 1..5, or has value and label both "Unknown".
C7_AttributesOnScale ==
    \A j \in 1..Len(data) :
        \A a \in 1..Len(Attributes(data[j])) : OnScale(Attributes(data[j])[a])

\* C8: the attributes an entity already had stay, in order, a prefix of its
\* attributes, and analysis_results is what the client returned.
C8_ExistingAttributesKept ==
    \A j \in 1..Len(data) :
        /\ IsPrefix(Attributes(Input[j]), Attributes(data[j]))
        /\ (pc = "r_sleep" /\ j = idx) => data[j]["analysis_results"] = analysis_results

OuterErrors == {"navigation", "probe", "content"}

\* C9 as stated: after any exception during navigation or interaction,
\* the load-more loop included, the entity is returned as it was.
C9_AnyExceptionLeavesEntity ==
    (stage = "scrape" /\ pc = "s_append" /\ exc # "none") => data[idx] = Input[idx]

\* C9 amended: after an exception during navigation, the presence probe, the
\* reading of the page content or the closing of the browser, the entity is
\* returned as it was; an exception inside the load-more loop only ends the
\* loop, and the attributes extracted from the page are then applied; an
\* exception at the exit of the browser driver, after the attributes were
\* assigned, leaves them applied (and leaves the entity as it was when the
\* page had no stands section).
C9_OuterExceptionLeavesEntity ==
    /\ (stage = "scrape" /\ pc = "s_append" /\ exc \in OuterErrors) =>
           data[idx] = Input[idx]
    /\ (stage = "scrape" /\ pc = "s_append" /\ exc \in {"loop", "exit"}) =>
           data[idx] = ApplyAttributes(Input[idx], extract_issues_from_html(page))
    /\ (stage = "scrape" /\ pc = "s_append" /\ exc = "exit"
            /\ ~HasStandsSection(page)) =>
           data[idx] = Input[idx]

\* the content of a page with issues could not be read: the entity is as it was
C9_Witness ==
    /\ stage = "scrape" /\ pc = "s_append" /\ exc = "content"
    /\ extract_issues_from_html(page) # <<>>
    /\ data[idx] = Input[idx]

\* C10: process_all_cardinals handles one entity at a time and performs the
\* pacing delay after every entity it handled, whatever the outcome; no page
\* load starts while a delay is owed.
C10_DelayAfterEveryEntity ==
    stage = "scrape" =>
        /\ pc \in {"s_next", "s_goto", "done"} =>
               delays = Len(updated_data) /\ since_req = 0
        /\ pc = "s_sleep" => delays = Len(updated_data) - 1
        /\ pc \in {"s_goto", "s_probe", "s_more", "s_wait", "s_content", "s_append"} =>
               Len(updated_data) = idx - 1 /\ delays = idx - 1
        /\ page # NoPage =>
               pc \in {"s_probe", "s_more", "s_wait", "s_content", "s_append"}

\* the second page load is about to start, one delay after a failed entity
C10_Witness ==
    /\ stage = "scrape" /\ pc = "s_goto" /\ idx = 2 /\ delays = 1
    /\ data[1] = Input[1] /\ since_req = 0

\* C11: when the presence probe finds no stands section on the page, the
\* entity is returned as it was: the load-more loop is never entered (no
\* click) and the page content is never read (no extraction) for that page.
C11_NoSectionReturnsEntity ==
    (stage = "scrape" /\ page # NoPage /\ ~HasStandsSection(page)) =>
        /\ pc \in {"s_probe", "s_append"}
        /\ data[idx] = Input[idx]

\* the probe found no section on the page of an entity that has a URL
C11_Witness ==
    /\ stage = "scrape" /\ pc = "s_append" /\ exc = "none"
    /\ page = PageNoStands
    /\ data[idx] = Input[idx]

\* the fields of a record that no pass adds or changes
StaticKeys(e) == DOMAIN e \ {"attributes", "analysis_results"}
SameStatic(a, b) ==
    /\ StaticKeys(a) = StaticKeys(b)
    /\ \A key \in StaticKeys(a) : a[key] = b[key]

\* C12: when a pass completes, the file it writes holds exactly one record per
\* input entity, in input order, each with the static fields of the input
\* entity at that position, whatever happened to each entity.
C12_OneRecordPerEntity ==
    pc = "done" =>
        /\ out_file.written
        /\ Len(out_file.content) = Len(Input)
        /\ \A j \in 1..Len(Input) : SameStatic(out_file.content[j], Input[j])

\* a completed scraping pass whose first entity failed and whose second
\* entity was enriched
C12_Witness ==
    /\ stage = "scrape" /\ pc = "done" /\ Len(Input) = 2
    /\ out_file.content[1] = Input[1]
    /\ out_file.content[2] # Input[2]

\* C13: get_label_for_rating never raises; it returns the fixed label of an
\* integer rating in 1..5, and "Unknown" for an integer outside 1..5, for a
\* float below 1 or above 5, for inf and nan, and for a value that is no
\* number (a word, null, a list, a dict).
C13_LabelTotal ==
    (fn = "get_label_for_rating" /\ pc = "returned") =>
        /\ ~ret.raised
        /\ (arg.k = "int" /\ arg.v \in 1..5) => ret.val = Labels[arg.v]
        /\ (arg.k = "int" /\ arg.v \notin 1..5) => ret.val = Unknown
        /\ (arg.k = "float" /\ (arg.v < 10 \/ arg.v > 50)) => ret.val = Unknown
        /\ arg.k \in {"inf", "nan", "null", "list", "dict"} => ret.val = Unknown
        /\ arg \in {JStr("high"), JStr("")} => ret.val = Unknown

\* C14: for every hidden fragment with an entry [value] => N and an entry
\* [label] => L, in either order and whatever text surrounds the two entries,
\* the record of the sub-item has value N and label L; for every fragment
\* with neither entry, value and label are both "Unknown".
C14_FragmentDecoded ==
    (fn = "extract_issues_from_html" /\ pc = "returned") =>
        /\ \A q \in FragmentParts :
               arg = FragmentPage(Fragment(q)) =>
                   /\ Len(ret) = 1
                   /\ ret[1].value = Join(q.n)
                   /\ ret[1].label = Join(Strip(q.l))
        /\ \A f \in PlainFragments :
               arg = FragmentPage(f) =>
                   /\ Len(ret) = 1
                   /\ ret[1].value = Unknown
                   /\ ret[1].label = Unknown

\* the document has no div whose id is wherehestands
LacksStandsDiv(doc) ==
    \A j \in 1..Len(DescPaths(doc)) :
        LET n == NodeAt(doc, DescPaths(doc)[j]) IN
        ~(n.tag = "div" /\ n.id = "wherehestands")

\* C15: for every document that lacks the stands section,
\* extract_issues_from_html returns the empty sequence.
C15_NoSectionNoRecords ==
    (fn = "extract_issues_from_html" /\ pc = "returned" /\ LacksStandsDiv(arg)) =>
        ret = <<>>

\* the extractor returned nothing for a document whose accordion is outside
\* any stands section
C15_Witness ==
    /\ fn = "extract_issues_from_html" /\ pc = "returned"
    /\ LacksStandsDiv(arg)
    /\ FindAll(arg, Sel("div", "", "accordion-content", "")) # <<>>
    /\ ret = <<>>

\* the profile text of a call of analyze_cardinal_profile
ProfileOf(d) == IF Has(d.v, "profile") THEN d.v["profile"].v ELSE ""
SummaryOf(d) == IF Has(d.v, "summary") THEN d.v["summary"].v ELSE ""
\* the text the prompt embeds after the summary
Embedded(prompt, d) ==
    SubSeq(prompt, Len(PromptHead) + Len(SummaryOf(d)) + Len(PromptMiddle) + 1,
           Len(prompt) - Len(PromptTail))

\* C16: a profile text longer than 1500 characters is embedded in the prompt
\* as its first 1500 characters followed by "..."; a profile text of at most
\* 1500 characters is embedded unchanged.
C16_ProfileTruncated ==
    (fn = "analyze_cardinal_profile" /\ pc = "returned") =>
        LET profile == ProfileOf(arg)
            embedded == Embedded(ret, arg)
        IN /\ Len(ret) = Len(PromptHead) + Len(SummaryOf(arg)) + Len(PromptMiddle)
                            + Len(embedded) + Len(PromptTail)
           /\ Len(profile) <= 1500 => embedded = profile
           /\ Len(profile) > 1500 =>
                  /\ Len(embedded) = 1500 + 3
                  /\ SubSeq(embedded, 1, 1500) = SubSeq(profile, 1, 1500)
                  /\ SubSeq(embedded, 1500 + 1, 1500 + 3) = "..."

\* a profile of 1501 characters was cut, one of 1500 was not
C16_Witness ==
    /\ fn = "analyze_cardinal_profile" /\ pc = "returned"
    /\ Len(ProfileOf(arg)) = 1501
    /\ Len(Embedded(ret, arg)) = 1503

\* C17: when GROQ_API_KEY is not set, the reasoning stage stops at the import
\* of its module: the input file is never read, no entity is fetched or
\* analysed, and no output file is written.
C17_MissingKeyAborts ==
    (stage = "reason" /\ groq_api_key = NoValue) =>
        /\ pc \in {"r_import", "exited"}
        /\ data = <<>>
        /\ since_req = 0
        /\ profile_data = NoValue
        /\ analysis_results = NoValue
        /\ out_file = NotWritten

\* the stage has exited without the key, its input of two entities unread
C17_Witness ==
    /\ stage = "reason" /\ pc = "exited" /\ groq_api_key = NoValue
    /\ Len(Input) = 2 /\ data = <<>>
    /\ out_file = NotWritten

\* the positions of the run inside the load-more loop
LoopPositions == {"s_more", "s_wait"}

\* C18: the load-more loop ends as soon as the control is seen not visible or
\* a step of an iteration raises, and only then: no number of clicks ends it.
\* Once the control is not visible at a check the loop terminates; in a
\* behaviour where the control is visible at every check and no step raises,
\* the loop, once entered, is never left, so nothing is appended and no
\* output is written.
C18_LoopEndsOnHiddenOrError ==
    /\ [][(pc = "s_more" /\ (~visible \/ exc' = "loop")) => pc' = "s_content"]_vars
    /\ [][(pc = "s_wait" /\ exc' = "loop") => pc' = "s_content"]_vars
    /\ [][(pc \in LoopPositions /\ pc' \notin LoopPositions) =>
              (pc = "s_more" /\ ~visible) \/ exc' = "loop"]_vars
    /\ [][(pc \in LoopPositions) =>
              (data' = data /\ updated_data' = updated_data)]_vars
    /\ (pc = "s_more" /\ ~visible) ~> (pc \notin LoopPositions)
    /\ ([](pc = "s_more" => visible) /\ [](exc # "loop")) =>
           [](pc \in LoopPositions =>
                  [](pc \in LoopPositions /\ updated_data = <<>>
                         /\ out_file = NotWritten))

\* the control was visible at the check and was clicked, nothing has raised:
\* the iteration is at its wait, from where the next check follows
C18_Witness ==
    /\ pc = "s_wait" /\ visible /\ exc = "none"
    /\ out_file = NotWritten

\* C18, the opposite statement: a loop that was entered is left in the end.
\* It does not hold: the run that finds the control visible at every check
\* goes round the loop for ever.
C18_LoopAlwaysEnds == (pc = "s_more") ~> (pc \notin LoopPositions)

\* the records of a section described by the numbers of sub-items of its
\* items: one per sub-item, in document order, under the title of its item
RECURSIVE SectionRecords(_, _)
SectionRecords(counts, k) ==
    IF k > Len(counts) THEN <<>>
    ELSE [j \in 1..counts[k] |-> SubRecord(k, j)] \o SectionRecords(counts, k + 1)

\* C19: for a stands section of accordion items, extract_issues_from_html
\* returns exactly one record per sub-item, in document order, each under the
\* title of the item whose details block holds the sub-item, whether every
\* item has a parent of its own or the headings and details blocks share one.
C19_OneRecordPerSubItem ==
    (fn = "extract_issues_from_html" /\ pc = "returned") =>
        \A layout \in Layouts, counts \in ItemCounts :
            arg = StandsPage(layout, counts) => ret = SectionRecords(counts, 1)

\* C20: in the reasoning pass the wait separates any two consecutive requests:
\* when an entity is about to be fetched, a wait has been performed since the
\* last entity that issued a request, whether that entity succeeded, failed
\* to fetch, or got an error from the service.
C20_WaitBetweenRequests ==
    (stage = "reason" /\ pc = "r_fetch") => since_req = 0

=============================================================================
